---------------------------- MODULE Spec2Model ----------------------------
(***************************************************************************)
(* A model of the PDF Tally Converter backend (src/backend/main.py): the   *)
(* extraction / conversion handlers, the corrected-table save handlers,    *)
(* the edit-history log and the CSV / XLSX / Tally-XML exporters.          *)
(*                                                                         *)
(* Text is modelled as a sequence of one-character strings, so that the    *)
(* string operations of the code (strip, split, upper, replace, escaping,  *)
(* tag serialisation) are computed and not assumed.                        *)
(***************************************************************************)
EXTENDS Integers, Sequences, FiniteSets, TLC

(***************************************************************************)
(* Characters and strings                                                  *)
(***************************************************************************)
UpperSeq == <<"A","B","C","D","E","F","G","H","I","J","K","L","M",
              "N","O","P","Q","R","S","T","U","V","W","X","Y","Z">>
LowerSeq == <<"a","b","c","d","e","f","g","h","i","j","k","l","m",
              "n","o","p","q","r","s","t","u","v","w","x","y","z">>
Range(f) == {f[i] : i \in DOMAIN f}
UpperLetters == Range(UpperSeq)
LowerLetters == Range(LowerSeq)
Digits == {"0","1","2","3","4","5","6","7","8","9"}
DigitSeq == <<"0","1","2","3","4","5","6","7","8","9">>
\* str.split() / str.strip() whitespace
Whitespace == {" ", "\t", "\n", "\r"}
\* The characters the model's strings are made of.  Neither "}" nor "=",
\* quotes, "!" or "?" occur in any modelled string.
Chars == UpperLetters \cup LowerLetters \cup Digits \cup Whitespace
           \cup {"_", "-", ".", ",", ":", "/", "<", ">", "&", ";", "{"}

\* XML 1.0 productions [4] NameStartChar and [4a] NameChar, within Chars.
NameStartChar == UpperLetters \cup LowerLetters \cup {"_", ":"}
NameChar == NameStartChar \cup Digits \cup {"-", "."}

RECURSIVE Concat(_)
\* the concatenation of a sequence of strings
Concat(ss) == IF ss = <<>> THEN <<>> ELSE Head(ss) \o Concat(Tail(ss))

\* str.upper() on one character
UpperChar(c) ==
    IF c \in LowerLetters
    THEN UpperSeq[CHOOSE i \in DOMAIN LowerSeq : LowerSeq[i] = c]
    ELSE c
\* key.upper().replace(' ', '_')
UpperUnderscore(s) ==
    [i \in DOMAIN s |-> IF UpperChar(s[i]) = " " THEN "_" ELSE UpperChar(s[i])]

\* str.strip(): leading and trailing whitespace removed
RECURSIVE LStrip(_)
LStrip(s) == IF s # <<>> /\ Head(s) \in Whitespace THEN LStrip(Tail(s)) ELSE s
RECURSIVE RStrip(_)
RStrip(s) ==
    IF s # <<>> /\ s[Len(s)] \in Whitespace
    THEN RStrip(SubSeq(s, 1, Len(s) - 1)) ELSE s
Strip(s) == RStrip(LStrip(s))

\* str.split(sep) for a one-character separator: always at least one piece
RECURSIVE SplitOn(_, _)
SplitOn(s, sep) ==
    IF \A i \in DOMAIN s : s[i] # sep THEN <<s>>
    ELSE LET i == CHOOSE k \in DOMAIN s :
                      s[k] = sep /\ \A j \in 1..(k - 1) : s[j] # sep
         IN  <<SubSeq(s, 1, i - 1)>> \o SplitOn(SubSeq(s, i + 1, Len(s)), sep)

\* str.split(): split on runs of whitespace, no empty pieces
RECURSIVE SplitWs(_)
SplitWs(s) ==
    LET t == LStrip(s) IN
    IF t = <<>> THEN <<>>
    ELSE LET n == IF \A i \in DOMAIN t : t[i] \notin Whitespace THEN Len(t)
                  ELSE (CHOOSE k \in DOMAIN t :
                           t[k] \in Whitespace
                           /\ \A j \in 1..(k - 1) : t[j] \notin Whitespace) - 1
         IN  <<SubSeq(t, 1, n)>> \o SplitWs(SubSeq(t, n + 1, Len(t)))

(***************************************************************************)
(* Cell values: the JSON values a cell can hold (string, number, null).    *)
(* A number is carried with its Python str() rendering.                    *)
(***************************************************************************)
StrVal(s) == [t |-> "str", s |-> s]
NumVal(s) == [t |-> "num", s |-> s]
NullVal == [t |-> "null", s |-> <<>>]
\* str(value)
PyStr(v) == IF v.t = "null" THEN <<"N","o","n","e">> ELSE v.s


(***************************************************************************)
(* xml.etree.ElementTree: elements, and ElementTree.write(encoding=        *)
(* 'utf-8', xml_declaration=True).  An element is its tag, its text and    *)
(* its children; no element of this program has attributes or a tail.      *)
(***************************************************************************)
Element(tag, text, children) == [tag |-> tag, text |-> text, children |-> children]

\* _escape_cdata: "&", "<" and ">" of a text are replaced by entities
EscapeChar(c) ==
    CASE c = "&" -> <<"&","a","m","p",";">>
      [] c = "<" -> <<"&","l","t",";">>
      [] c = ">" -> <<"&","g","t",";">>
      [] OTHER   -> <<c>>
EscapeCdata(s) == Concat([i \in DOMAIN s |-> EscapeChar(s[i])])

RECURSIVE Tags(_)
\* the tags of an element and of all its descendants
Tags(e) == {e.tag} \cup UNION {Tags(e.children[i]) : i \in DOMAIN e.children}

\* _namespaces/add_qname: a tag that starts with "{" is split at its last
\* "}" into (uri, local name); without a "}" the unpacking raises
\* ValueError, which add_qname does not catch.  No modelled string holds a
\* "}", so every tag starting with "{" raises.  Any other tag is written
\* as it is: a tag is never validated or escaped.
QNameRaises(tag) == tag # <<>> /\ tag[1] = "{"
SerializeRaises(root) == \E t \in Tags(root) : QNameRaises(t)

RECURSIVE SerializeXml(_)
\* _serialize_xml with short_empty_elements=True
SerializeXml(e) ==
    IF e.text # <<>> \/ e.children # <<>>
    THEN <<"<">> \o e.tag \o <<">">> \o EscapeCdata(e.text)
           \o Concat([i \in DOMAIN e.children |-> SerializeXml(e.children[i])])
           \o <<"<", "/">> \o e.tag \o <<">">>
    ELSE <<"<">> \o e.tag \o <<" ", "/", ">">>

\* The declaration ElementTree.write puts first: <?xml version='1.0'
\* encoding='utf-8'?>
XmlDeclaration == [version |-> "1.0", encoding |-> "utf-8"]
\* The file tree.write leaves behind.  The file is opened and the
\* declaration written before the tags are resolved, so a write that
\* raises leaves a file holding the declaration only.
TreeWrite(root) ==
    [declaration |-> XmlDeclaration,
     body |-> IF SerializeRaises(root) THEN <<>> ELSE SerializeXml(root),
     raised |-> SerializeRaises(root)]

(***************************************************************************)
(* XML 1.0 well-formedness of a serialised body, by recursive descent:     *)
(*   element ::= '<' Name S? ( '/>' | '>' content '</' Name S? '>' )       *)
(*   content ::= ( CharData | Reference | element )*                       *)
(* Attributes, comments, processing instructions and CDATA sections need   *)
(* '=', quotes, '!' or '?', which are not in Chars.  Each operator returns *)
(* the position after what it parsed, or 0 when the input is not           *)
(* well-formed there.                                                      *)
(***************************************************************************)
At(s, i) == IF i \in DOMAIN s THEN s[i] ELSE "EOF"

RECURSIVE NameEnd(_, _)
\* the position after the run of NameChars that starts at i
NameEnd(s, i) == IF At(s, i) \in NameChar THEN NameEnd(s, i + 1) ELSE i
\* [5] Name: a NameStartChar then NameChars; 0 when there is no Name at i
ParseName(s, i) == IF At(s, i) \in NameStartChar THEN NameEnd(s, i + 1) ELSE 0

RECURSIVE SkipS(_, _)
SkipS(s, i) == IF At(s, i) \in Whitespace THEN SkipS(s, i + 1) ELSE i

PredefinedEntities ==
    {<<"a","m","p">>, <<"l","t">>, <<"g","t">>, <<"q","u","o","t">>, <<"a","p","o","s">>}
\* [67] Reference, entity references only: '&' Name ';' of a predefined entity
ParseReference(s, i) ==
    LET j == ParseName(s, i + 1) IN
    IF At(s, i) = "&" /\ j # 0 /\ At(s, j) = ";"
         /\ SubSeq(s, i + 1, j - 1) \in PredefinedEntities
    THEN j + 1 ELSE 0

RECURSIVE ParseElement(_, _)
RECURSIVE ParseContent(_, _)
\* content up to the "</" that ends the enclosing element: the position of
\* that "<", or 0
ParseContent(s, i) ==
    CASE At(s, i) = "EOF" -> 0
      [] At(s, i) = "<" /\ At(s, i + 1) = "/" -> i
      [] At(s, i) = "<" /\ At(s, i + 1) # "/" ->
            LET j == ParseElement(s, i) IN
            IF j = 0 THEN 0 ELSE ParseContent(s, j)
      [] At(s, i) = "&" ->
            LET j == ParseReference(s, i) IN
            IF j = 0 THEN 0 ELSE ParseContent(s, j)
      [] OTHER -> ParseContent(s, i + 1)
ParseElement(s, i) ==
    LET n == ParseName(s, i + 1)
        a == SkipS(s, n)
    IN  IF At(s, i) # "<" \/ n = 0 THEN 0
        ELSE IF At(s, a) = "/" /\ At(s, a + 1) = ">" THEN a + 2
        ELSE IF At(s, a) # ">" THEN 0
        ELSE LET c == ParseContent(s, a + 1)
                 m == ParseName(s, c + 2)
                 z == SkipS(s, m)
             IN  IF c = 0 \/ m = 0 THEN 0
                 ELSE IF SubSeq(s, c + 2, m - 1) # SubSeq(s, i + 1, n - 1) THEN 0
                 ELSE IF At(s, z) # ">" THEN 0
                 ELSE z + 1

\* [1] document: one root element, then nothing but whitespace
WellFormedBody(s) ==
    LET j == ParseElement(s, 1) IN j # 0 /\ SkipS(s, j) = Len(s) + 1
\* a file that is well-formed XML with a UTF-8 declaration
WellFormedXmlFile(f) ==
    /\ f.declaration.version = "1.0"
    /\ f.declaration.encoding \in {"utf-8", "UTF-8"}
    /\ WellFormedBody(f.body)


(***************************************************************************)
(* The canonical table of the save handlers (TableData, TableRow,          *)
(* TableCell, CellMetadata) and the pandas DataFrame of the converters.    *)
(***************************************************************************)
CellMetadata(error, confidence, status, originalValue) ==
    [error |-> error, confidence |-> confidence, status |-> status,
     originalValue |-> originalValue]
TableCell(value, metadata) == [value |-> value, metadata |-> metadata]
TableRow(cells) == [cells |-> cells]
TableData(headers, rows) == [headers |-> headers, rows |-> rows]

\* NaN, the value pandas puts where a frame has no data; DataFrame(columns,
\* data) is a frame of len(data) rows, each one value per column
NaNVal == [t |-> "nan", s |-> <<"n","a","n">>]
DataFrame(columns, data) == [columns |-> columns, data |-> data]

\* row.cells[header] raises KeyError when a row has no cell for a header
KeyErrorIn(data) ==
    \E r \in DOMAIN data.rows : \E h \in DOMAIN data.headers :
        data.headers[h] \notin DOMAIN data.rows[r].cells

\* str(float(n)) of a number given by its str(): an integer gains ".0"
FloatStr(s) == IF \E i \in DOMAIN s : s[i] = "." THEN s ELSE s \o <<".", "0">>
\* the dtype pd.DataFrame(rows_data, columns=...) infers for a column of
\* Python values: a column holding numbers and None, and nothing else, is
\* float64 (each number a float, each None NaN); any other column keeps
\* its objects
FloatColumn(grid, c) ==
    /\ \A r \in DOMAIN grid : grid[r][c].t \in {"num", "null"}
    /\ \E r \in DOMAIN grid : grid[r][c].t = "num"
    /\ \E r \in DOMAIN grid : grid[r][c].t = "null"
InferDtypes(grid) ==
    [r \in DOMAIN grid |->
        [c \in DOMAIN grid[r] |->
            IF FloatColumn(grid, c)
            THEN IF grid[r][c].t = "num" THEN NumVal(FloatStr(grid[r][c].s)) ELSE NaNVal
            ELSE grid[r][c]]]

\* the values a table would export if a cell flagged as an error were
\* exported with its metadata's original value
RowsDataFlagged(data) ==
    DataFrame(data.headers,
              InferDtypes(
                [r \in DOMAIN data.rows |->
                  [h \in DOMAIN data.headers |->
                      LET cell == data.rows[r].cells[data.headers[h]] IN
                      IF cell.metadata.status = "error"
                      THEN cell.metadata.originalValue ELSE cell.value]]))

\* row.cells[header].value for each row and each header, in order
CellValues(data) ==
    [r \in DOMAIN data.rows |->
        [h \in DOMAIN data.headers |-> data.rows[r].cells[data.headers[h]].value]]
\* the same values as a frame of object columns (no dtype inferred)
ObjectFrame(data) == DataFrame(data.headers, CellValues(data))
\* rows_data / pd.DataFrame(rows_data, columns=data.headers) of
\* save_as_xlsx and save_as_csv: each row's values in header order, the
\* value only, under the dtypes the frame infers
RowsData(data) == DataFrame(data.headers, InferDtypes(CellValues(data)))

(***************************************************************************)
(* The Tally XML envelope                                                  *)
(***************************************************************************)
tagENVELOPE == <<"E","N","V","E","L","O","P","E">>
tagHEADER == <<"H","E","A","D","E","R">>
tagVERSION == <<"V","E","R","S","I","O","N">>
tagTALLYREQUEST == <<"T","A","L","L","Y","R","E","Q","U","E","S","T">>
tagBODY == <<"B","O","D","Y">>
tagIMPORTDATA == <<"I","M","P","O","R","T","D","A","T","A">>
tagREQUESTDESC == <<"R","E","Q","U","E","S","T","D","E","S","C">>
tagREPORTNAME == <<"R","E","P","O","R","T","N","A","M","E">>
tagREQUESTDATA == <<"R","E","Q","U","E","S","T","D","A","T","A">>
tagTALLYMESSAGE == <<"T","A","L","L","Y","M","E","S","S","A","G","E">>
tagVOUCHER == <<"V","O","U","C","H","E","R">>
txtOne == <<"1">>
txtImportData == <<"I","m","p","o","r","t"," ","D","a","t","a">>
txtCustom == <<"C","u","s","t","o","m">>
Leaf(tag, text) == Element(tag, text, <<>>)

\* ENVELOPE / HEADER (VERSION, TALLYREQUEST) / BODY / IMPORTDATA /
\* (REQUESTDESC / REPORTNAME, REQUESTDATA / records)
Envelope(records) ==
    Element(tagENVELOPE, <<>>,
      << Element(tagHEADER, <<>>,
            << Leaf(tagVERSION, txtOne), Leaf(tagTALLYREQUEST, txtImportData) >>),
         Element(tagBODY, <<>>,
            << Element(tagIMPORTDATA, <<>>,
                 << Element(tagREQUESTDESC, <<>>, << Leaf(tagREPORTNAME, txtCustom) >>),
                    Element(tagREQUESTDATA, <<>>, records) >>) >>) >>)

\* one TALLYMESSAGE per frame row, one leaf per column: the tag is
\* str(column), the text is str(value)
TallyMessages(df) ==
    [r \in DOMAIN df.data |->
        Element(tagTALLYMESSAGE, <<>>,
                [c \in DOMAIN df.columns |-> Leaf(df.columns[c], PyStr(df.data[r][c]))])]

\* create_tally_xml(data, filename): the element tree, and the file written
create_tally_xml_tree(df) == Envelope(TallyMessages(df))
create_tally_xml(df) == TreeWrite(create_tally_xml_tree(df))

\* save_as_xml(data, filepath): the element tree, and the file written
save_as_xml_tree(data) == Envelope(TallyMessages(ObjectFrame(data)))
save_as_xml(data) == TreeWrite(save_as_xml_tree(data))

\* the XML of POST /save-edits: ENVELOPE / TALLYMESSAGE / one VOUCHER per
\* row, one leaf per key of the row dict, named key.upper().replace(' ','_')
voucher_xml_tree(df) ==
    Element(tagENVELOPE, <<>>,
      << Element(tagTALLYMESSAGE, <<>>,
            [r \in DOMAIN df.data |->
                Element(tagVOUCHER, <<>>,
                    [c \in DOMAIN df.columns |->
                        Leaf(UpperUnderscore(df.columns[c]), PyStr(df.data[r][c]))])]) >>)

(***************************************************************************)
(* DataFrame.to_csv(index=False) and DataFrame.to_excel(index=False)       *)
(***************************************************************************)
\* the text to_csv writes for a value: None and NaN as the empty string
CsvText(v) == IF v.t \in {"null", "nan"} THEN <<>> ELSE v.s
\* csv.QUOTE_MINIMAL: a field holding the delimiter, the quote character or
\* the line terminator is quoted; so is the empty field of a one-field
\* record.  (Whether a carriage return is quoted depends on the version of
\* the csv module; no modelled cell holds one.)
CsvField(s, alone) ==
    IF (\E i \in DOMAIN s : s[i] \in {",", "\"", "\n"}) \/ (alone /\ s = <<>>)
    THEN <<"\"">> \o Concat([i \in DOMAIN s |->
                               IF s[i] = "\"" THEN <<"\"", "\"">> ELSE <<s[i]>>])
           \o <<"\"">>
    ELSE s
\* one record: the fields joined by ",", ended by the line terminator
CsvRecord(fields) ==
    Concat([i \in DOMAIN fields |->
              (IF i = 1 THEN <<>> ELSE <<",">>) \o CsvField(fields[i], Len(fields) = 1)])
      \o <<"\n">>
\* the header record, then one record per row
ToCsv(df) ==
    [text |-> CsvRecord(df.columns)
      \o Concat([r \in DOMAIN df.data |->
                   CsvRecord([c \in DOMAIN df.columns |-> CsvText(df.data[r][c])])])]
\* the sheet to_excel writes: the header row, then the typed values
ToExcel(df) == [header |-> df.columns, cells |-> df.data]

save_as_csv(data) == ToCsv(RowsData(data))
save_as_xlsx(data) == ToExcel(RowsData(data))


(***************************************************************************)
(* Bounded inputs                                                          *)
(***************************************************************************)
MaxCols == 2
MaxRows == 1

\* header strings: a plain name, one with a space, one with a markup
\* character, one with a brace
hA == <<"A">>
hBC == <<"B"," ","C">>
hLt == <<"<","a">>
hBrace == <<"{","a">>
HeaderPool == {hA, hBC, hLt, hBrace}
vX == StrVal(<<"x">>)
ValuePool == {vX, NullVal}
metaClean == CellMetadata("None", "None", "ok", NullVal)
metaFlagged == CellMetadata("True", "0.4", "error", StrVal(<<"o","l","d">>))
MetaPool == {metaClean, metaFlagged}

\* lists of distinct headers, and grids of values under them
HeaderLists ==
    {hs \in UNION {[1..n -> HeaderPool] : n \in 0..MaxCols} :
        \A i, j \in DOMAIN hs : hs[i] = hs[j] => i = j}
Grids(n) == UNION {[1..r -> [1..n -> ValuePool]] : r \in 0..MaxRows}
ColumnOf(hs, h) == CHOOSE c \in DOMAIN hs : hs[c] = h
\* the table of a grid, cell (r, c) carrying metadata mEven when r + c is
\* even and mOdd when it is odd
MakeTable(hs, grid, mEven, mOdd) ==
    TableData(hs,
      [r \in DOMAIN grid |->
          TableRow([h \in Range(hs) |->
              TableCell(grid[r][ColumnOf(hs, h)],
                        IF (r + ColumnOf(hs, h)) % 2 = 0 THEN mEven ELSE mOdd)])])

\* tables for the tabular export: headers and values that need quoting, the
\* empty string, None and a number beside them
MaxCsvRows == 2
hComma == <<"a", ",", "b">>
CsvHeaderPool == {hA, hBC, hComma}
vBlank == StrVal(<<>>)
vQuoted == StrVal(<<"a", ",", "\"">>)
nOne == NumVal(<<"1">>)
CsvValuePool == {vX, vBlank, vQuoted, nOne, NullVal}
CsvHeaderLists ==
    {hs \in UNION {[1..n -> CsvHeaderPool] : n \in 0..MaxCols} :
        \A i, j \in DOMAIN hs : hs[i] = hs[j] => i = j}
CsvGrids(n) == UNION {[1..r -> [1..n -> CsvValuePool]] : r \in 0..MaxCsvRows}

VARIABLES
    table,      \* exporter input: a TableData
    twin,       \* exporter input: a TableData with the same headers and values
    exported,   \* the last export: its format and what was written for each input
    clock,      \* datetime.now(), in whole seconds
    corrected,  \* the directory "corrected": file id -> the three exports
    logs,       \* the directory "logs": (file id, timestamp) -> edit history
    saved,      \* the save requests answered with success so far
    uploads,    \* the directory UPLOAD_DIR: file id -> the stored upload
    converted,  \* the directory CONVERTED_DIR: file id -> format -> artifact
    nextId,     \* the uuid4 values handed out so far
    response,   \* the response to the last request
    latest,     \* the file CONVERTED_DIR/latest.json
    validation  \* the response to the last GET /validate-data
vars == <<table, twin, exported, clock, corrected, logs, saved,
          uploads, converted, nextId, response, latest, validation>>
exportVars == <<table, twin, exported>>
saveVars == <<clock, corrected, logs, saved>>
convertVars == <<uploads, converted, nextId>>
validateVars == <<latest, validation>>

NoFile == [exists |-> FALSE]
NoResponse == [endpoint |-> "none"]
\* nothing exported yet (the same shape as an export's record)
NoExport ==
    [format |-> "none", a |-> [raised |-> "none", file |-> NoFile],
     b |-> [raised |-> "none", file |-> NoFile]]


(***************************************************************************)
(* The exporters, applied to a table and to its twin                       *)
(***************************************************************************)
\* what pd.DataFrame(...).to_csv / to_excel / tree.write leave for a table,
\* or the KeyError raised while the row dicts are built
Exported(format, data) ==
    IF KeyErrorIn(data) THEN [raised |-> "KeyError", file |-> NoFile]
    ELSE CASE format = "csv"  -> [raised |-> "no", file |-> save_as_csv(data)]
           [] format = "xlsx" -> [raised |-> "no", file |-> save_as_xlsx(data)]
           [] format = "xml"  ->
                [raised |-> IF save_as_xml(data).raised THEN "ValueError" ELSE "no",
                 file |-> save_as_xml(data)]
           [] format = "tally_xml" ->
                [raised |-> IF create_tally_xml(ObjectFrame(data)).raised
                            THEN "ValueError" ELSE "no",
                 file |-> create_tally_xml(ObjectFrame(data))]

ExportCsv ==
    /\ exported' = [format |-> "csv", a |-> Exported("csv", table),
                    b |-> Exported("csv", twin)]
    /\ UNCHANGED <<validateVars, table, twin, saveVars, convertVars, response>>
ExportXlsx ==
    /\ exported' = [format |-> "xlsx", a |-> Exported("xlsx", table),
                    b |-> Exported("xlsx", twin)]
    /\ UNCHANGED <<validateVars, table, twin, saveVars, convertVars, response>>
ExportXml ==
    /\ exported' = [format |-> "xml", a |-> Exported("xml", table),
                    b |-> Exported("xml", twin)]
    /\ UNCHANGED <<validateVars, table, twin, saveVars, convertVars, response>>
ExportTallyXml ==
    /\ exported' = [format |-> "tally_xml", a |-> Exported("tally_xml", table),
                    b |-> Exported("tally_xml", twin)]
    /\ UNCHANGED <<validateVars, table, twin, saveVars, convertVars, response>>


(***************************************************************************)
(* The corrected-table save handlers and the edit-history log              *)
(***************************************************************************)
MaxSaves == 2
MaxClock == 1

\* file ids a client names in POST /api/save-edits
SaveIds == {"f1", "f2"}
vY == StrVal(<<"y">>)
\* one row, column A holding "x"; the same with "y"; a row that lacks the
\* cell of its second header; a table whose header starts with a brace
tOrig == MakeTable(<<hA>>, <<<<vX>>>>, metaClean, metaClean)
tEdited == MakeTable(<<hA>>, <<<<vY>>>>, metaClean, metaClean)
tMissing == TableData(<<hA, hBC>>, <<TableRow([h \in {hA} |-> TableCell(vX, metaClean)])>>)
tBraced == MakeTable(<<hBrace>>, <<<<vX>>>>, metaClean, metaClean)
SaveTables == {tOrig, tEdited, tMissing, tBraced}

EditHistory(timestamp, rowId, columnKey, oldValue, newValue) ==
    [timestamp |-> timestamp, rowId |-> rowId, columnKey |-> columnKey,
     oldValue |-> oldValue, newValue |-> newValue]
eXY == EditHistory(1, <<"0">>, hA, vX, vY)
eYX == EditHistory(2, <<"0">>, hA, vY, vX)
eNoRow == EditHistory(3, <<"7">>, hA, vX, vY)
eNoCol == EditHistory(3, <<"0">>, hBC, vX, vY)
SaveHistories == {<<>>, <<eXY>>, <<eYX, eXY>>, <<eNoRow>>, <<eNoCol>>}

\* a file on disk
Stored(content) == [exists |-> TRUE, content |-> content]
NoExports == [xlsx |-> NoFile, csv |-> NoFile, xml |-> NoFile]

\* log_changes(file_id, edit_history): the file name is made of the file id
\* and datetime.now() to the second, and the file is opened with "w": the
\* edit list is dumped as it is, over whatever that name held
log_changes(fileId, editHistory) ==
    [logs EXCEPT ![<<fileId, clock>>] = Stored(editHistory)]

\* the three save_as_* calls of save_edits, in order.  save_as_xlsx builds
\* its row dicts first, so a KeyError leaves nothing written; a ValueError
\* of tree.write comes after the xlsx and csv files are complete and the
\* xml file is opened.
SaveExports(fileId, data) ==
    IF KeyErrorIn(data) THEN corrected
    ELSE [corrected EXCEPT ![fileId] =
             [xlsx |-> Stored(save_as_xlsx(data)),
              csv |-> Stored(save_as_csv(data)),
              xml |-> Stored(save_as_xml(data))]]
\* the files one call of save_edits opens for writing
SaveWrites(data) ==
    CASE KeyErrorIn(data) -> {}
      [] ~KeyErrorIn(data) /\ save_as_xml(data).raised -> {"xlsx", "csv", "xml"}
      [] OTHER -> {"xlsx", "csv", "xml", "log"}
SaveRaises(data) ==
    IF KeyErrorIn(data) THEN "KeyError"
    ELSE IF save_as_xml(data).raised THEN "ValueError" ELSE "no"

\* POST /api/save-edits: save_edits(payload).  The payload's modifiedData
\* is exported as it is and its editHistory is logged as it is; any
\* exception becomes HTTPException(500).
api_save_edits(fileId, originalData, modifiedData, editHistory) ==
    LET raises == SaveRaises(modifiedData)
        status == IF raises = "no" THEN 200 ELSE 500
    IN  /\ Len(saved) < MaxSaves
        /\ corrected' = SaveExports(fileId, modifiedData)
        /\ logs' = IF raises = "no" THEN log_changes(fileId, editHistory) ELSE logs
        /\ saved' = Append(saved,
              [fileId |-> fileId, originalData |-> originalData,
               modifiedData |-> modifiedData, editHistory |-> editHistory,
               at |-> clock, status |-> status, raises |-> raises,
               wrote |-> SaveWrites(modifiedData)])
        /\ response' =
              [endpoint |-> "/api/save-edits", status |-> status, detail |-> raises,
               data |-> modifiedData,
               xml |-> IF raises = "no" THEN <<save_as_xml_tree(modifiedData)>> ELSE <<>>]
        /\ UNCHANGED <<validateVars, clock, exportVars, convertVars>>

\* POST /save-edits: save_edits(request).  CORRECTED_DIR is defined nowhere
\* in the module, so the first os.path.join(CORRECTED_DIR, ...) raises
\* NameError before any file is opened; the handler logs it and raises
\* HTTPException(500).
save_edits(originalData, modifiedData, editHistory) ==
    /\ response' =
          [endpoint |-> "/save-edits", status |-> 500, detail |-> "NameError",
           data |-> modifiedData, xml |-> <<>>]
    /\ UNCHANGED <<validateVars, saveVars, exportVars, convertVars>>

\* a second passes
Tick ==
    /\ clock < MaxClock
    /\ clock' = clock + 1
    /\ UNCHANGED <<validateVars, corrected, logs, saved, response, exportVars, convertVars>>

ApiSaveEdits ==
    \E fileId \in SaveIds, modifiedData \in SaveTables, editHistory \in SaveHistories :
        api_save_edits(fileId, tOrig, modifiedData, editHistory)
RawSaveEdits ==
    \E modifiedData \in SaveTables, editHistory \in SaveHistories :
        save_edits(tOrig, modifiedData, editHistory)


(***************************************************************************)
(* Extraction: pdfplumber tables and OCR text to DataFrames                *)
(***************************************************************************)
RECURSIVE MaxLen(_)
\* the length of the longest row of a list of rows
MaxLen(rows) ==
    IF rows = <<>> THEN 0
    ELSE LET m == MaxLen(Tail(rows)) IN
         IF Len(Head(rows)) > m THEN Len(Head(rows)) ELSE m
\* pd.DataFrame(rows, columns=columns) raises ValueError unless the longest
\* row has as many cells as there are columns; shorter rows are filled
\* with None
FrameRaises(columns, rows) == rows # <<>> /\ MaxLen(rows) # Len(columns)
FrameOf(columns, rows) ==
    DataFrame(columns,
              [r \in DOMAIN rows |->
                  [c \in DOMAIN columns |->
                      IF c \in DOMAIN rows[r] THEN rows[r][c] ELSE NullVal]])

\* the tables of all pages, in page order then detection order
AllTables(pages) == Concat(pages)
\* extract_tables_from_pdf(file_path): one frame per non-empty table, its
\* first row the columns; any exception (the document does not open, a
\* frame cannot be built) becomes ConversionError.  A raw table is a list
\* of rows of cell values, every header cell a string.
extract_tables_from_pdf(content) ==
    IF content.kind # "pdf" THEN [raises |-> "ConversionError", tables |-> <<>>]
    ELSE LET found == SelectSeq(AllTables(content.pages), LAMBDA t : t # <<>>)
             columns(t) == [c \in DOMAIN t[1] |-> t[1][c].s]
         IN  IF \E i \in DOMAIN found : FrameRaises(columns(found[i]), Tail(found[i]))
             THEN [raises |-> "ConversionError", tables |-> <<>>]
             ELSE [raises |-> "no",
                   tables |-> [i \in DOMAIN found |->
                                  FrameOf(columns(found[i]), Tail(found[i]))]]

\* process_image_ocr(file_path): the OCR text is stripped and split at line
\* breaks (split always returns at least one piece, so "if not lines" never
\* holds); the first line split at whitespace is the columns, every other
\* line split at whitespace is a row.  Any exception (the image does not
\* decode, the frame cannot be built) becomes ConversionError.
process_image_ocr(content) ==
    IF content.kind # "image" THEN [raises |-> "ConversionError", data |-> DataFrame(<<>>, <<>>)]
    ELSE LET lines == SplitOn(Strip(content.text), "\n")
             headers == SplitWs(lines[1])
             data == [i \in 1..(Len(lines) - 1) |->
                        LET cells == SplitWs(lines[i + 1]) IN
                        [c \in DOMAIN cells |-> StrVal(cells[c])]]
         IN  IF lines = <<>> \/ FrameRaises(headers, data)
             THEN [raises |-> "ConversionError", data |-> DataFrame(<<>>, <<>>)]
             ELSE [raises |-> "no", data |-> FrameOf(headers, data)]

RECURSIVE UnionColumns(_, _)
\* the columns of the frames, each once, in order of first appearance
UnionColumns(frames, seen) ==
    IF frames = <<>> THEN seen
    ELSE UnionColumns(Tail(frames),
            seen \o SelectSeq(Head(frames).columns, LAMBDA c : c \notin Range(seen)))
\* pd.concat(dataframes, ignore_index=True): the rows of the frames one
\* after the other, under the union of their columns; a value is found by
\* the NAME of its column and is NaN where the frame has no such column.
\* Column names are distinct within each frame.
PdConcat(frames) ==
    LET columns == UnionColumns(frames, <<>>)
        aligned(df) ==
            [r \in DOMAIN df.data |->
                [c \in DOMAIN columns |->
                    IF columns[c] \in Range(df.columns)
                    THEN df.data[r][ColumnOf(df.columns, columns[c])]
                    ELSE NaNVal]]
    IN  DataFrame(columns, Concat([i \in DOMAIN frames |-> aligned(frames[i])]))


(***************************************************************************)
(* Conversion: convert_file and the upload / convert handlers              *)
(***************************************************************************)
MaxUploads == 1

\* str.lower() on the file extensions that occur
LowerExt(ext) == IF ext = ".PDF" THEN ".pdf" ELSE ext
AllowedExts == <<".pdf", ".png", ".jpg", ".jpeg">>
ImageExts == {".png", ".jpg", ".jpeg"}
KnownFormats == {"xlsx", "csv", "xml"}
DefaultFormats == <<"xlsx", "csv", "xml">>

NoConverted == [xlsx |-> NoFile, csv |-> NoFile, xml |-> NoFile]
NoUpload == [ext |-> "", content |-> [kind |-> "none"]]
EmptyFrame == DataFrame(<<>>, <<>>)

\* pd.concat raises ValueError("No objects to concatenate") on an empty list
ExtractDataUnchecked(upload) ==
    LET ext == LowerExt(upload.ext)
        pdf == extract_tables_from_pdf(upload.content)
        img == process_image_ocr(upload.content)
    IN  CASE ext = ".pdf" /\ pdf.raises # "no" ->
                [raises |-> "ConversionError", extracted |-> TRUE, data |-> EmptyFrame,
                 message |-> "Failed to extract tables from PDF"]
          [] ext = ".pdf" /\ pdf.raises = "no" /\ pdf.tables = <<>> ->
                [raises |-> "ValueError", extracted |-> TRUE, data |-> EmptyFrame,
                 message |-> "No objects to concatenate"]
          [] ext = ".pdf" /\ pdf.raises = "no" /\ pdf.tables # <<>> ->
                [raises |-> "no", extracted |-> TRUE, data |-> PdConcat(pdf.tables),
                 message |-> ""]
          [] ext \in ImageExts /\ img.raises # "no" ->
                [raises |-> "ConversionError", extracted |-> TRUE, data |-> EmptyFrame,
                 message |-> "Failed to process image"]
          [] ext \in ImageExts /\ img.raises = "no" ->
                [raises |-> "no", extracted |-> TRUE, data |-> img.data, message |-> ""]
          [] OTHER ->
                [raises |-> "HTTPException", extracted |-> FALSE, data |-> EmptyFrame,
                 message |-> "400: Unsupported file format"]

\* convert_file, first half: the frame extracted from the file, by its
\* lower-cased extension, or the exception raised
ExtractData(upload) ==
    LET ext == LowerExt(upload.ext)
        pdf == extract_tables_from_pdf(upload.content)
        img == process_image_ocr(upload.content)
    IN  CASE ext = ".pdf" /\ pdf.raises # "no" ->
                [raises |-> "ConversionError", extracted |-> TRUE, data |-> EmptyFrame,
                 message |-> "Failed to extract tables from PDF"]
          [] ext = ".pdf" /\ pdf.raises = "no" /\ pdf.tables = <<>> ->
                [raises |-> "ConversionError", extracted |-> TRUE, data |-> EmptyFrame,
                 message |-> "No tables found in PDF"]
          [] ext = ".pdf" /\ pdf.raises = "no" /\ pdf.tables # <<>> ->
                [raises |-> "no", extracted |-> TRUE, data |-> PdConcat(pdf.tables),
                 message |-> ""]
          [] ext \in ImageExts /\ img.raises # "no" ->
                [raises |-> "ConversionError", extracted |-> TRUE, data |-> EmptyFrame,
                 message |-> "Failed to process image"]
          [] ext \in ImageExts /\ img.raises = "no" ->
                [raises |-> "no", extracted |-> TRUE, data |-> img.data, message |-> ""]
          [] OTHER ->
                [raises |-> "HTTPException", extracted |-> FALSE, data |-> EmptyFrame,
                 message |-> "400: Unsupported file format"]

RECURSIVE WriteFormats(_, _, _)
\* convert_file, second half: the loop over output_formats.  Each known
\* format is written in turn over what CONVERTED_DIR held; a format that
\* is none of xlsx, csv, xml matches no branch and is passed over.  A
\* ValueError of tree.write ends the loop, the xml file left opened.
WriteFormats(df, formats, files) ==
    IF formats = <<>> THEN [raises |-> "no", files |-> files]
    ELSE LET format == Head(formats) IN
         CASE format = "xlsx" ->
                WriteFormats(df, Tail(formats), [files EXCEPT !.xlsx = Stored(ToExcel(df))])
           [] format = "csv" ->
                WriteFormats(df, Tail(formats), [files EXCEPT !.csv = Stored(ToCsv(df))])
           [] format = "xml" ->
                IF create_tally_xml(df).raised
                THEN [raises |-> "ValueError",
                      files |-> [files EXCEPT !.xml = Stored(create_tally_xml(df))]]
                ELSE WriteFormats(df, Tail(formats),
                                  [files EXCEPT !.xml = Stored(create_tally_xml(df))])
           [] OTHER -> WriteFormats(df, Tail(formats), files)

\* convert_file(file_path, file_id, output_formats): what it raises, the
\* files CONVERTED_DIR holds for the file id afterwards, and the dict it
\* returns (headers, rows of str(value), one link per written format)
convert_file(upload, output_formats, files) ==
    LET ex == ExtractData(upload)
        wr == WriteFormats(ex.data, output_formats, files)
    IN  IF ex.raises # "no"
        THEN [raises |-> ex.raises, message |-> ex.message, extracted |-> ex.extracted,
              files |-> files, result |-> <<>>]
        ELSE IF wr.raises # "no"
        THEN [raises |-> wr.raises, message |-> "not enough values to unpack", extracted |-> TRUE,
              files |-> wr.files, result |-> <<>>]
        ELSE [raises |-> "no", message |-> "File converted successfully",
              extracted |-> TRUE, files |-> wr.files,
              result |-> << [headers |-> ex.data.columns,
                             rows |-> [r \in DOMAIN ex.data.data |->
                                         [c \in DOMAIN ex.data.columns |->
                                             PyStr(ex.data.data[r][c])]],
                             converted_files |->
                                 {f \in KnownFormats : f \in Range(output_formats)}] >>]

\* the two except clauses of the convert handlers: ConversionError is
\* answered with 400, every other exception (HTTPException too) with 500
ConvertStatus(raises) ==
    CASE raises = "no" -> 200
      [] raises = "ConversionError" -> 400
      [] OTHER -> 500
ConvertResponse(endpoint, file_id, upload, output_formats, out) ==
    [endpoint |-> endpoint, status |-> ConvertStatus(out.raises), raises |-> out.raises,
     message |-> out.message, file_id |-> file_id, upload |-> upload,
     formats |-> output_formats, extracted |-> out.extracted, result |-> out.result]

\* POST /upload: upload_file(file).  An empty file and an extension that
\* is not allowed are refused with 400 before anything is stored.
upload_file(upload) ==
    LET refused == upload.content.kind = "empty"
                     \/ LowerExt(upload.ext) \notin Range(AllowedExts)
        file_id == nextId + 1
    IN  /\ refused \/ nextId < MaxUploads
        /\ uploads' = IF refused THEN uploads ELSE [uploads EXCEPT ![file_id] = Stored(upload)]
        /\ nextId' = IF refused THEN nextId ELSE file_id
        /\ response' =
              [endpoint |-> "/upload", status |-> IF refused THEN 400 ELSE 200,
               raises |-> IF refused THEN "HTTPException" ELSE "no",
               message |-> IF upload.content.kind = "empty" THEN "Empty file"
                           ELSE IF refused THEN "Unsupported file format"
                           ELSE "File uploaded successfully",
               file_id |-> IF refused THEN 0 ELSE file_id, upload |-> upload,
               formats |-> <<>>, extracted |-> FALSE, result |-> <<>>]
        /\ UNCHANGED <<validateVars, converted, saveVars, exportVars>>

\* POST /convert/{file_id}: convert_uploaded_file(file_id, output_formats).
\* The file is looked up under each allowed extension; when found it is
\* converted and, if convert_file returns, removed.  HTTPException(404) is
\* raised inside the try block, so "except Exception" answers it with 500.
convert_uploaded_file(file_id, output_formats) ==
    LET found == uploads[file_id].exists
                   /\ uploads[file_id].content.ext \in Range(AllowedExts)
        upload == uploads[file_id].content
        out == convert_file(upload, output_formats, converted[file_id])
    IN  IF found
        THEN /\ converted' = [converted EXCEPT ![file_id] = out.files]
             /\ uploads' = IF out.raises = "no"
                           THEN [uploads EXCEPT ![file_id] = NoFile] ELSE uploads
             /\ response' = ConvertResponse("/convert/{file_id}", file_id, upload,
                                            output_formats, out)
             /\ UNCHANGED <<validateVars, nextId, saveVars, exportVars>>
        ELSE /\ response' =
                   [endpoint |-> "/convert/{file_id}", status |-> 500,
                    raises |-> "HTTPException", message |-> "404: File not found",
                    file_id |-> file_id, upload |-> NoUpload, formats |-> output_formats,
                    extracted |-> FALSE, result |-> <<>>]
             /\ UNCHANGED <<validateVars, uploads, converted, nextId, saveVars, exportVars>>

\* POST /convert: convert_new_file(file, output_formats).  The upload is
\* stored first, whatever its name and content; it is removed only when
\* convert_file returns.
convert_new_file(upload, output_formats) ==
    LET file_id == nextId + 1
        out == convert_file(upload, output_formats, converted[file_id])
    IN  /\ nextId < MaxUploads
        /\ nextId' = file_id
        /\ converted' = [converted EXCEPT ![file_id] = out.files]
        /\ uploads' = IF out.raises = "no" THEN uploads
                      ELSE [uploads EXCEPT ![file_id] = Stored(upload)]
        /\ response' = ConvertResponse("/convert", file_id, upload, output_formats, out)
        /\ UNCHANGED <<validateVars, saveVars, exportVars>>


(***************************************************************************)
(* Bounded requests of the conversion handlers                             *)
(***************************************************************************)
hB == <<"B">>
v1 == StrVal(<<"1">>)
v2 == StrVal(<<"2">>)
\* raw tables as page.extract_tables() returns them: A,B / 1,2 and B,A / 2,1
rawAB == << <<StrVal(hA), StrVal(hB)>>, <<v1, v2>> >>
rawBA == << <<StrVal(hB), StrVal(hA)>>, <<v2, v1>> >>
\* what the bytes of an upload decode to
docEmpty == [kind |-> "empty"]
docCorrupt == [kind |-> "corrupt"]
pdfNoTables == [kind |-> "pdf", pages |-> << <<>>, <<>> >>]
pdfEmptyTable == [kind |-> "pdf", pages |-> << << <<>> >> >>]
pdfOne == [kind |-> "pdf", pages |-> << <<rawAB>> >>]
pdfTwo == [kind |-> "pdf", pages |-> << <<rawAB>>, <<>>, <<rawBA>> >>]
imgNoText == [kind |-> "image", text |-> <<>>]
imgBlank == [kind |-> "image", text |-> <<" ", "\n", " ">>]
imgTable == [kind |-> "image", text |-> <<"A", " ", "B", "\n", "1", " ", " ", "2", "\n">>]
Upload(ext, content) == [ext |-> ext, content |-> content]
UploadPool ==
    {Upload(".pdf", pdfNoTables), Upload(".pdf", pdfEmptyTable), Upload(".pdf", pdfOne),
     Upload(".pdf", pdfTwo), Upload(".pdf", docCorrupt), Upload(".pdf", docEmpty),
     Upload(".PDF", pdfOne),
     Upload(".png", imgNoText), Upload(".png", imgBlank), Upload(".png", imgTable),
     Upload(".jpg", docCorrupt), Upload(".txt", docCorrupt)}
FormatPool == {DefaultFormats, <<"json">>, <<"csv", "json">>}
UploadIds == 1..(MaxUploads + 1)

UploadFile == \E upload \in UploadPool : upload_file(upload)
ConvertUploadedFile ==
    \E file_id \in UploadIds, output_formats \in FormatPool :
        convert_uploaded_file(file_id, output_formats)
ConvertNewFile ==
    \E upload \in UploadPool, output_formats \in FormatPool :
        convert_new_file(upload, output_formats)

(***************************************************************************)
(* The validator: validate_table over the rows of CONVERTED_DIR/           *)
(* latest.json, and the handler GET /validate-data.  A cell is a JSON      *)
(* value; row_idx and col_idx count from zero as in the source.            *)
(***************************************************************************)
\* cell.replace(',', '')
RemoveCommas(s) == SelectSeq(s, LAMBDA c : c # ",")
\* sub in s, for a non-empty sub
Contains(s, sub) ==
    \E i \in 1..(Len(s) - Len(sub) + 1) : SubSeq(s, i, i + Len(sub) - 1) = sub
\* the number a run of decimal digits writes
RECURSIVE NatOf(_)
NatOf(s) ==
    IF s = <<>> THEN 0
    ELSE 10 * NatOf(SubSeq(s, 1, Len(s) - 1))
         + (CHOOSE i \in DOMAIN DigitSeq : DigitSeq[i] = s[Len(s)]) - 1
AllDigits(s) == \A i \in DOMAIN s : s[i] \in Digits

\* float(str): surrounding whitespace is dropped; an optional sign, then
\* "inf", "infinity" or "nan" in any case, or a decimal literal with an
\* optional fraction and exponent whose digits may be grouped by single
\* underscores
DigitPart(s) ==
    /\ s # <<>>
    /\ s[1] \in Digits /\ s[Len(s)] \in Digits
    /\ \A i \in DOMAIN s : s[i] \in Digits \/ s[i] = "_"
    /\ \A i \in 1..(Len(s) - 1) : ~(s[i] = "_" /\ s[i + 1] = "_")
Unsigned(s) == IF s # <<>> /\ s[1] \in {"+", "-"} THEN Tail(s) ELSE s
PointFloat(m) ==
    LET parts == SplitOn(m, ".") IN
    CASE Len(parts) = 1 -> DigitPart(m)
      [] Len(parts) = 2 ->
            \/ DigitPart(parts[1]) /\ (parts[2] = <<>> \/ DigitPart(parts[2]))
            \/ parts[1] = <<>> /\ DigitPart(parts[2])
      [] OTHER -> FALSE
FloatParses(s) ==
    LET u == Unsigned(Strip(s))
        up == [i \in DOMAIN u |-> UpperChar(u[i])]
        parts == SplitOn(up, "E")
    IN  \/ up \in {<<"I","N","F">>, <<"N","A","N">>,
                   <<"I","N","F","I","N","I","T","Y">>}
        \/ Len(parts) = 1 /\ PointFloat(up)
        \/ Len(parts) = 2 /\ PointFloat(parts[1]) /\ DigitPart(Unsigned(parts[2]))

\* datetime.strptime(s, '%Y-%m-%d'): four digits, a month of one or two
\* digits, a day of one or two digits (or a space and a digit), nothing
\* after them, and a date that exists in the calendar
LeapYear(y) == (y % 4 = 0 /\ y % 100 # 0) \/ y % 400 = 0
DaysInMonth(y, m) ==
    CASE m = 2 -> IF LeapYear(y) THEN 29 ELSE 28
      [] m \in {4, 6, 9, 11} -> 30
      [] OTHER -> 31
MonthField(p) ==
    \/ Len(p) = 1 /\ p[1] \in Digits \ {"0"}
    \/ Len(p) = 2 /\ p[1] = "0" /\ p[2] \in Digits \ {"0"}
    \/ Len(p) = 2 /\ p[1] = "1" /\ p[2] \in {"0", "1", "2"}
DayField(p) ==
    \/ Len(p) = 1 /\ p[1] \in Digits \ {"0"}
    \/ Len(p) = 2 /\ p[1] = "3" /\ p[2] \in {"0", "1"}
    \/ Len(p) = 2 /\ p[1] \in {"1", "2"} /\ p[2] \in Digits
    \/ Len(p) = 2 /\ p[1] \in {"0", " "} /\ p[2] \in Digits \ {"0"}
StrptimeParses(s) ==
    LET parts == SplitOn(s, "-") IN
    /\ Len(parts) = 3
    /\ Len(parts[1]) = 4 /\ AllDigits(parts[1])
    /\ MonthField(parts[2])
    /\ DayField(parts[3])
    /\ NatOf(parts[1]) >= 1
    /\ NatOf(LStrip(parts[3])) <= DaysInMonth(NatOf(parts[1]), NatOf(parts[2]))

MandatoryColumns == {0, 1, 2}
NumericColumns == {3, 4}
DateColumn == 2
OcrDigraphs == {<<"O", "0">>, <<"l", "1">>, <<"S", "5">>}
Finding(row_idx, col_idx, type, severity, message) ==
    [row |-> row_idx, column |-> col_idx, type |-> type,
     severity |-> severity, message |-> message]
\* the four checks of one cell, in the order of the loop body
MandatoryCheck(row_idx, col_idx, cell) ==
    IF Strip(cell) = <<>> /\ col_idx \in MandatoryColumns
    THEN <<Finding(row_idx, col_idx, "error", "critical",
                   "Mandatory field cannot be empty")>>
    ELSE <<>>
NumericCheck(row_idx, col_idx, cell) ==
    IF col_idx \in NumericColumns /\ ~FloatParses(Strip(RemoveCommas(cell)))
    THEN <<Finding(row_idx, col_idx, "error", "critical",
                   "Value must be numeric")>>
    ELSE <<>>
DateCheck(row_idx, col_idx, cell) ==
    IF col_idx = DateColumn /\ ~StrptimeParses(Strip(cell))
    THEN <<Finding(row_idx, col_idx, "error", "warning",
                   "Invalid date format (should be YYYY-MM-DD)")>>
    ELSE <<>>
OcrCheck(row_idx, col_idx, cell) ==
    IF \E d \in OcrDigraphs : Contains(cell, d)
    THEN <<Finding(row_idx, col_idx, "warning", "info",
                   "Possible OCR confusion (O/0, l/1, S/5)")>>
    ELSE <<>>
CellFindings(row_idx, col_idx, cell) ==
    MandatoryCheck(row_idx, col_idx, cell)
    \o NumericCheck(row_idx, col_idx, cell)
    \o DateCheck(row_idx, col_idx, cell)
    \o OcrCheck(row_idx, col_idx, cell)
\* the inner loop over one row; the row at index 0 is skipped cell by cell
RowFindings(row_idx, row) ==
    IF row_idx = 0 THEN <<>>
    ELSE Concat([c \in DOMAIN row |-> CellFindings(row_idx, c - 1, row[c].s)])
\* a variant that writes each stripped cell back into its row
validate_table_in_place(data) ==
    IF \E r \in DOMAIN data : r > 1 /\ \E c \in DOMAIN data[r] : data[r][c].t # "str"
    THEN [raised |-> "AttributeError", data |-> data, results |-> <<>>]
    ELSE [raised |-> "no",
          data |-> [r \in DOMAIN data |->
                      [c \in DOMAIN data[r] |->
                          IF r > 1 THEN StrVal(Strip(data[r][c].s)) ELSE data[r][c]]],
          results |-> Concat([r \in DOMAIN data |-> RowFindings(r - 1, data[r])])]
\* validate_table: cell.strip() of a cell that is not a string raises
\* AttributeError; the rows are read and never assigned
validate_table(data) ==
    IF \E r \in DOMAIN data : r > 1 /\ \E c \in DOMAIN data[r] : data[r][c].t # "str"
    THEN [raised |-> "AttributeError", data |-> data, results |-> <<>>]
    ELSE [raised |-> "no", data |-> data,
          results |-> Concat([r \in DOMAIN data |-> RowFindings(r - 1, data[r])])]

\* the rows a latest.json may hold
MaxValRows == 3
valHeaders == <<<<"c","0">>, <<"c","1">>, <<"c","2">>, <<"c","3">>, <<"c","4">>>>
dIso == <<"2","0","2","4","-","0","1","-","1","5">>
dSlash == <<"1","5","/","0","1","/","2","0","2","4">>
dShort == <<"2","0","2","4","-","1","-","5">>
dFeb30 == <<"2","0","2","4","-","0","2","-","3","0">>
goodRow ==
    <<StrVal(<<"x">>), StrVal(<<" ", "y", " ">>), StrVal(dIso),
      StrVal(<<"1",",","2","3","4",".","5">>), StrVal(<<"1">>)>>
ValRowPool ==
    {goodRow,
     <<StrVal(<<"x">>)>>,
     [goodRow EXCEPT ![2] = StrVal(<<" ">>)],
     [goodRow EXCEPT ![3] = StrVal(dSlash)],
     [goodRow EXCEPT ![3] = StrVal(dShort)],
     [goodRow EXCEPT ![3] = StrVal(dFeb30)],
     [goodRow EXCEPT ![3] = StrVal(<<"S", "5">>)],
     [goodRow EXCEPT ![4] = StrVal(<<"n","a","n">>)],
     [goodRow EXCEPT ![4] = StrVal(<<"O", "0">>)],
     [goodRow EXCEPT ![1] = StrVal(<<>>), ![3] = StrVal(dSlash),
                     ![4] = StrVal(<<"1","2","a","4">>)],
     [goodRow EXCEPT ![5] = NumVal(<<"1">>)],
     [goodRow EXCEPT ![5] = NullVal]}
ValTables == UNION {[1..n -> ValRowPool] : n \in 0..MaxValRows}
NoLatest == [exists |-> FALSE, data |-> [headers |-> <<>>, rows |-> <<>>]]
LatestPool ==
    {NoLatest} \cup
    {[exists |-> TRUE, data |-> [headers |-> valHeaders, rows |-> rows]] :
        rows \in ValTables}
NoValidation ==
    [endpoint |-> "none", status |-> 0, raised |-> "none",
     data |-> NoLatest.data, validation |-> <<>>]

\* GET /validate-data: every exception raised inside the try block, the
\* HTTPException of the missing file included, is answered as a 500
validate_data ==
    LET out == validate_table(latest.data.rows)
        raised == IF ~latest.exists THEN "HTTPException404" ELSE out.raised
    IN  /\ validation' =
             [endpoint |-> "/validate-data",
              status |-> IF raised = "no" THEN 200 ELSE 500,
              raised |-> raised,
              data |-> IF raised = "no"
                       THEN [latest.data EXCEPT !.rows = out.data]
                       ELSE NoLatest.data,
              validation |-> IF raised = "no" THEN out.results ELSE <<>>]
        /\ UNCHANGED <<latest, exportVars, saveVars, convertVars, response>>
ValidateData == validate_data

(***************************************************************************)
(* Specifications.  The exporters are pure; the save handlers work on the  *)
(* directories "corrected" and "logs", the conversion handlers on          *)
(* UPLOAD_DIR and CONVERTED_DIR: each group is specified on its own, the   *)
(* state of the others at rest.                                            *)
(***************************************************************************)
ExportAtRest == table = tOrig /\ twin = tOrig /\ exported = NoExport
SaveAtRest ==
    /\ clock = 0
    /\ corrected = [f \in SaveIds |-> NoExports]
    /\ logs = [k \in SaveIds \X (0..MaxClock) |-> NoFile]
    /\ saved = <<>>
ConvertAtRest ==
    /\ uploads = [i \in UploadIds |-> NoFile]
    /\ converted = [i \in UploadIds |-> NoConverted]
    /\ nextId = 0
ValidateAtRest == latest = NoLatest /\ validation = NoValidation

\* the exporters, on every bounded table and every twin of it
InitExport ==
    /\ \E hs \in HeaderLists : \E grid \in Grids(Len(hs)) :
         \E m \in MetaPool, mEven \in MetaPool, mOdd \in MetaPool :
            /\ table = MakeTable(hs, grid, m, m)
            /\ twin = MakeTable(hs, grid, mEven, mOdd)
    /\ exported = NoExport
    /\ SaveAtRest /\ ConvertAtRest /\ response = NoResponse /\ ValidateAtRest
NextExport == ExportCsv \/ ExportXlsx \/ ExportXml \/ ExportTallyXml
SpecExport == InitExport /\ [][NextExport]_vars

\* the tabular exporter, on every bounded table of typed values
InitCsv ==
    /\ \E hs \in CsvHeaderLists : \E grid \in CsvGrids(Len(hs)) :
            /\ table = MakeTable(hs, grid, metaClean, metaClean)
            /\ twin = table
    /\ exported = NoExport
    /\ SaveAtRest /\ ConvertAtRest /\ response = NoResponse /\ ValidateAtRest
NextCsv == ExportCsv \/ ExportXlsx
SpecCsv == InitCsv /\ [][NextCsv]_vars

\* the save handlers
InitSave == SaveAtRest /\ ExportAtRest /\ ConvertAtRest /\ response = NoResponse /\ ValidateAtRest
NextSave == ApiSaveEdits \/ RawSaveEdits \/ Tick
SpecSave == InitSave /\ [][NextSave]_vars

\* the conversion handlers
InitConvert == ConvertAtRest /\ ExportAtRest /\ SaveAtRest /\ response = NoResponse /\ ValidateAtRest
NextConvert == UploadFile \/ ConvertUploadedFile \/ ConvertNewFile
SpecConvert == InitConvert /\ [][NextConvert]_vars

\* the validation handler, on every bounded latest.json and on none
InitValidate ==
    /\ latest \in LatestPool
    /\ validation = NoValidation
    /\ ExportAtRest /\ SaveAtRest /\ ConvertAtRest /\ response = NoResponse
NextValidate == ValidateData
SpecValidate == InitValidate /\ [][NextValidate]_vars


(***************************************************************************)
(* The edit ledger as section 4.4 of the specification describes it.  A    *)
(* TableRow has no identifier of its own: a rowId names a row by its       *)
(* zero-based position, written in decimal.                                *)
(***************************************************************************)
\* the one-based index a rowId names, 0 when it names none
RowIndex(rowId) ==
    IF Len(rowId) = 1 /\ rowId[1] \in Digits
    THEN CHOOSE i \in DOMAIN DigitSeq : DigitSeq[i] = rowId[1]
    ELSE 0
\* the edit's rowId and columnKey name an existing cell of the table
Resolves(data, edit) ==
    /\ RowIndex(edit.rowId) \in DOMAIN data.rows
    /\ edit.columnKey \in Range(data.headers)
    /\ edit.columnKey \in DOMAIN data.rows[RowIndex(edit.rowId)].cells

RECURSIVE SortByTimestamp(_)
\* the edits in ascending timestamp order, equal timestamps in list order
SortByTimestamp(edits) ==
    IF edits = <<>> THEN <<>>
    ELSE LET i == CHOOSE k \in DOMAIN edits :
                    /\ \A j \in DOMAIN edits : edits[k].timestamp <= edits[j].timestamp
                    /\ \A j \in 1..(k - 1) : edits[j].timestamp > edits[k].timestamp
         IN  <<edits[i]>> \o
             SortByTimestamp(SubSeq(edits, 1, i - 1) \o SubSeq(edits, i + 1, Len(edits)))

RECURSIVE ApplyEdits(_, _)
\* applyEdits(baseTable, orderedEdits): each edit in turn sets its cell to
\* newValue, moves the prior value to metadata.originalValue and marks the
\* cell ok; an edit that names no cell fails the whole call
ApplyEdits(data, edits) ==
    IF edits = <<>> THEN [raises |-> "no", table |-> data]
    ELSE IF ~Resolves(data, Head(edits)) THEN [raises |-> "ReferenceError", table |-> data]
    ELSE LET e == Head(edits)
             r == RowIndex(e.rowId)
             old == data.rows[r].cells[e.columnKey]
             cell == TableCell(e.newValue,
                        [old.metadata EXCEPT !.originalValue = old.value, !.status = "ok"])
         IN  ApplyEdits([data EXCEPT !.rows[r].cells[e.columnKey] = cell], Tail(edits))

(***************************************************************************)
(* Claims about the save handlers (SpecSave)                               *)
(***************************************************************************)
Accepted == {i \in DOMAIN saved : saved[i].status = 200}

\* C1: a save whose edit history holds an edit that names no cell of the
\* original table fails with a ReferenceError, and leaves neither an export
\* nor an audit log behind.
C1_UnknownTargetFails ==
    \A i \in DOMAIN saved :
        (\E e \in Range(saved[i].editHistory) : ~Resolves(saved[i].originalData, e))
        => /\ saved[i].status # 200
           /\ saved[i].raises = "ReferenceError"
           /\ saved[i].wrote = {}

\* C2: what an accepted save exports is the original table with the edit
\* history applied cell by cell in ascending timestamp order.
C2_ExportIsReplayOfEdits ==
    LET i == Len(saved) IN
    (i > 0 /\ saved[i].status = 200) =>
        LET replay == ApplyEdits(saved[i].originalData,
                                 SortByTimestamp(saved[i].editHistory))
            files == corrected[saved[i].fileId]
        IN  /\ replay.raises = "no"
            /\ files.xlsx.content = save_as_xlsx(replay.table)
            /\ files.csv.content = save_as_csv(replay.table)
            /\ files.xml.content = save_as_xml(replay.table)

\* C3: the audit ledger is append-only: there is one audit log file per
\* successful save, and the history each successful save wrote is still in
\* its log file.
C3_OneLogPerSave ==
    /\ Cardinality({k \in DOMAIN logs : logs[k].exists}) = Cardinality(Accepted)
    /\ \A i \in Accepted :
          LET log == logs[<<saved[i].fileId, saved[i].at>>] IN
          log.exists /\ log.content = saved[i].editHistory

\* the three exports a save of a table stores
ExportsOf(data) ==
    [xlsx |-> Stored(save_as_xlsx(data)), csv |-> Stored(save_as_csv(data)),
     xml |-> Stored(save_as_xml(data))]

\* C4: the exports stored for a table and its stored edit history come from
\* the same save request (no exports without the matching audit log), and
\* what a successful save stored is never changed by a later save.
C4_ExportsAndLogFromOneSave ==
    /\ \A f \in SaveIds :
          LET files == corrected[f] IN
          (files.xlsx.exists \/ files.csv.exists \/ files.xml.exists)
          => \E i \in Accepted :
                /\ saved[i].fileId = f
                /\ files = ExportsOf(saved[i].modifiedData)
                /\ logs[<<f, saved[i].at>>] = Stored(saved[i].editHistory)
    /\ \A i \in Accepted :
          /\ corrected[saved[i].fileId] = ExportsOf(saved[i].modifiedData)
          /\ logs[<<saved[i].fileId, saved[i].at>>] = Stored(saved[i].editHistory)

\* the children of an element that carry a tag
ChildrenTagged(e, tag) == SelectSeq(e.children, LAMBDA c : c.tag = tag)
\* the row records under ENVELOPE / BODY / IMPORTDATA / REQUESTDATA, as a
\* one-element list; the empty list when the tree has no such block
RequestDataRecords(root) ==
    LET bodies == ChildrenTagged(root, tagBODY)
        imports == ChildrenTagged(bodies[1], tagIMPORTDATA)
        blocks == ChildrenTagged(imports[1], tagREQUESTDATA)
    IN  IF root.tag # tagENVELOPE \/ Len(bodies) # 1 THEN <<>>
        ELSE IF Len(imports) # 1 THEN <<>>
        ELSE IF Len(blocks) # 1 THEN <<>>
        ELSE <<blocks[1].children>>
\* one record per table row in row order, each holding one leaf per header
\* in header order, named after the header (as it is or upper-cased with
\* underscores), its text the row's value under that header
RecordsMatch(records, data) ==
    /\ Len(records) = Len(data.rows)
    /\ \A r \in DOMAIN data.rows :
          /\ Len(records[r].children) = Len(data.headers)
          /\ \A c \in DOMAIN data.headers :
                LET leaf == records[r].children[c] IN
                /\ leaf.tag \in {data.headers[c], UpperUnderscore(data.headers[c])}
                /\ leaf.text = PyStr(data.rows[r].cells[data.headers[c]].value)
                /\ leaf.children = <<>>

\* C9: every XML export entry point emits, under the request-data block,
\* one row record per table row in row order, each with one leaf element
\* per header in header order whose text is the row's value.
C9_RowRecordsUnderRequestData ==
    (response.endpoint \in {"/api/save-edits", "/save-edits"}
       /\ ~KeyErrorIn(response.data))
    => /\ response.xml # <<>>
       /\ RequestDataRecords(response.xml[1]) # <<>>
       /\ RecordsMatch(RequestDataRecords(response.xml[1])[1], response.data)

(***************************************************************************)
(* Claims about the conversion handlers (SpecConvert)                      *)
(***************************************************************************)
ConvertEndpoints == {"/convert", "/convert/{file_id}"}
\* a PDF that opens and has no table on any page
ZeroTablePdf(upload) ==
    /\ LowerExt(upload.ext) = ".pdf"
    /\ upload.content.kind = "pdf"
    /\ \A p \in DOMAIN upload.content.pages : upload.content.pages[p] = <<>>
\* an image that decodes and whose OCR text holds no line of text
ZeroLineImage(upload) ==
    /\ LowerExt(upload.ext) \in ImageExts
    /\ upload.content.kind = "image"
    /\ Strip(upload.content.text) = <<>>

\* C5: converting a PDF in which no page has a table ends in the
\* ConversionError "No tables found in PDF", answered as an error (400),
\* with no headers/rows returned and no output artifact written.
C5_NoTablesIsConversionError ==
    (response.endpoint \in ConvertEndpoints /\ ZeroTablePdf(response.upload))
    => /\ response.status = 400
       /\ response.raises = "ConversionError"
       /\ response.message = "No tables found in PDF"
       /\ response.result = <<>>
       /\ converted[response.file_id] = NoConverted
\* a zero-table PDF was submitted to POST /convert/{file_id} and refused
C5_Witness ==
    /\ response.endpoint = "/convert/{file_id}"
    /\ ZeroTablePdf(response.upload)
    /\ response.status = 400

\* C6: converting an image whose OCR text holds no line of text fails with
\* ConversionError, and never returns an (empty) table as a success.
C6_NoTextIsConversionError ==
    (response.endpoint \in ConvertEndpoints /\ ZeroLineImage(response.upload))
    => /\ response.raises = "ConversionError"
       /\ response.status = 400
       /\ response.result = <<>>

\* C7: a conversion request with an unsupported input extension or an
\* unknown export format is refused as an unsupported format, before any
\* extraction, before the upload is stored and before any artifact is
\* written.
C7_UnsupportedRefusedFirst ==
    (/\ response.endpoint \in ConvertEndpoints
     /\ response.upload # NoUpload
     /\ \/ LowerExt(response.upload.ext) \notin Range(AllowedExts)
        \/ \E f \in Range(response.formats) : f \notin KnownFormats)
    => /\ response.status = 400
       /\ response.raises = "HTTPException"
       /\ ~response.extracted
       /\ response.endpoint = "/convert" => ~uploads[response.file_id].exists
       /\ converted[response.file_id] = NoConverted

(***************************************************************************)
(* Claims about the exporters (SpecExport)                                 *)
(***************************************************************************)
\* the same headers and the same cell values in the same order
SameValues(a, b) ==
    /\ a.headers = b.headers
    /\ Len(a.rows) = Len(b.rows)
    /\ \A r \in DOMAIN a.rows : \A c \in DOMAIN a.headers :
          a.rows[r].cells[a.headers[c]].value = b.rows[r].cells[a.headers[c]].value

\* C8: two tables with the same headers and cell values and different cell
\* metadata export identically, in every format (csv, xlsx, xml).
C8_ExportIgnoresMetadata ==
    (exported.format # "none" /\ SameValues(table, twin))
    => exported.a = exported.b
\* an XML export of a table with rows whose twin differs in metadata
C8_Witness ==
    /\ exported.format = "xml"
    /\ table.rows # <<>> /\ table.headers # <<>>
    /\ table # twin /\ SameValues(table, twin)
    /\ exported.a.raised = "no"
    /\ exported.a = exported.b

\* C10: whatever the header strings of a table the exporter accepts, the
\* XML it writes is well-formed XML with a UTF-8 declaration.
C10_XmlWellFormed ==
    ((exported.format = "xml" \/ exported.format = "tally_xml")
        /\ exported.a.raised = "no")
    => WellFormedXmlFile(exported.a.file)

(***************************************************************************)
(* Claims about the tabular exporter (SpecCsv)                             *)
(***************************************************************************)
RECURSIVE CsvScan(_, _, _, _, _, _)
\* a generic delimited reader: fields separated by ",", a field in double
\* quotes may hold the delimiter, line breaks and doubled quotes, a record
\* ends at a line break outside quotes; a blank line is a record of no field
CsvScan(s, i, quoted, field, record, started) ==
    IF i > Len(s)
    THEN IF started THEN <<Append(record, field)>> ELSE <<>>
    ELSE IF quoted
    THEN IF s[i] = "\"" /\ i < Len(s) /\ s[i + 1] = "\""
         THEN CsvScan(s, i + 2, TRUE, Append(field, "\""), record, TRUE)
         ELSE IF s[i] = "\""
         THEN CsvScan(s, i + 1, FALSE, field, record, TRUE)
         ELSE CsvScan(s, i + 1, TRUE, Append(field, s[i]), record, TRUE)
    ELSE CASE s[i] = "\"" -> CsvScan(s, i + 1, TRUE, field, record, TRUE)
           [] s[i] = "," -> CsvScan(s, i + 1, FALSE, <<>>, Append(record, field), TRUE)
           [] s[i] = "\n" ->
                <<IF started THEN Append(record, field) ELSE <<>>>>
                  \o CsvScan(s, i + 1, FALSE, <<>>, <<>>, FALSE)
           [] OTHER -> CsvScan(s, i + 1, FALSE, Append(field, s[i]), record, TRUE)
ParseCsv(text) == CsvScan(text, 1, FALSE, <<>>, <<>>, FALSE)
\* the string of a cell value: the empty string for an empty (null) value
CellString(v) == IF v.t = "null" THEN <<>> ELSE v.s
\* unique headers, every row holding exactly the header keys
ValidTable(data) ==
    /\ \A i, j \in DOMAIN data.headers : data.headers[i] = data.headers[j] => i = j
    /\ \A r \in DOMAIN data.rows : DOMAIN data.rows[r].cells = Range(data.headers)

\* C11: the CSV export of a valid table re-parses to the header record and
\* one record per row in row order, each cell the string of its value.
C11_CsvRoundTrip ==
    (exported.format = "csv" /\ ValidTable(table))
    => /\ exported.a.raised = "no"
       /\ ParseCsv(exported.a.file.text) =
            <<table.headers>> \o
            [r \in DOMAIN table.rows |->
                [c \in DOMAIN table.headers |->
                    CellString(table.rows[r].cells[table.headers[c]].value)]]

(***************************************************************************)
(* Claims about the merge of raw tables (SpecConvert)                      *)
(***************************************************************************)
\* the raw tables of a document that hold at least one row, in page order
\* then detection order
RawTables(content) == SelectSeq(AllTables(content.pages), LAMBDA t : t # <<>>)
\* every raw row but the first row of the first table, in order
RawDataRows(raw) == Tail(raw[1]) \o Concat([i \in 1..(Len(raw) - 1) |-> raw[i + 1]])

\* C12: the merged table of a converted PDF has the first raw table's first
\* row as its headers, and one row per other raw row of every raw table,
\* column N stored under header N by position.
C12_MergedByPosition ==
    (/\ response.endpoint \in ConvertEndpoints
     /\ response.status = 200
     /\ response.upload.content.kind = "pdf")
    => LET raw == RawTables(response.upload.content)
           rows == RawDataRows(raw)
           merged == response.result[1]
       IN  /\ merged.headers = [c \in DOMAIN raw[1][1] |-> raw[1][1][c].s]
           /\ merged.rows = [r \in DOMAIN rows |->
                                [c \in DOMAIN merged.headers |-> PyStr(rows[r][c])]]


(***************************************************************************)
(* Claims about the validator (SpecValidate).  The rows validated are the  *)
(* rows of latest.json: the headers are held apart from them, so every     *)
(* row is a data row, the first one included.                              *)
(***************************************************************************)
\* the findings reported for one cell by the rule that writes message
FindingsAt(findings, row_idx, col_idx, message) ==
    {i \in DOMAIN findings :
        /\ findings[i].row = row_idx
        /\ findings[i].column = col_idx
        /\ findings[i].message = message}
MandatoryMessage == "Mandatory field cannot be empty"
NumericMessage == "Value must be numeric"
DateMessage == "Invalid date format (should be YYYY-MM-DD)"
OcrMessage == "Possible OCR confusion (O/0, l/1, S/5)"
Blank(s) == \A i \in DOMAIN s : s[i] \in Whitespace
Validated == validation.endpoint = "/validate-data" /\ validation.status = 200

\* C13: in every data row, the first one and the only one of a one-row
\* table included, a blank cell at a mandatory column has exactly one
\* finding of severity critical with the mandatory-field message at its row
\* and column, and a cell that is not blank has none.
C13_MandatoryRule ==
    Validated =>
        \A r \in DOMAIN latest.data.rows :
            \A c \in DOMAIN latest.data.rows[r] :
                (c - 1) \in MandatoryColumns =>
                    LET at == FindingsAt(validation.validation, r - 1, c - 1,
                                         MandatoryMessage)
                    IN  IF Blank(latest.data.rows[r][c].s)
                        THEN /\ Cardinality(at) = 1
                             /\ \A i \in at :
                                   validation.validation[i].severity = "critical"
                        ELSE at = {}

\* a number in decimal notation: an optional sign, digits, and an optional
\* fraction point among them
DecimalNumber(s) ==
    LET u == Unsigned(s)
        parts == SplitOn(u, ".")
    IN  /\ Len(parts) \in {1, 2}
        /\ \A k \in DOMAIN parts : AllDigits(parts[k])
        /\ \E k \in DOMAIN parts : parts[k] # <<>>

\* C14: in every data row, a cell at a numeric column has exactly one
\* critical finding "Value must be numeric" when its text, commas and
\* surrounding whitespace removed, is not a number, and none when it is.
C14_NumericRule ==
    Validated =>
        \A r \in DOMAIN latest.data.rows :
            \A c \in DOMAIN latest.data.rows[r] :
                (c - 1) \in NumericColumns =>
                    LET at == FindingsAt(validation.validation, r - 1, c - 1,
                                         NumericMessage)
                    IN  IF DecimalNumber(Strip(RemoveCommas(latest.data.rows[r][c].s)))
                        THEN at = {}
                        ELSE /\ Cardinality(at) = 1
                             /\ \A i \in at :
                                   validation.validation[i].severity = "critical"

\* a date of the calendar written as four digits, two digits and two digits
\* with "-" between them
IsoCalendarDate(s) ==
    /\ Len(s) = 10
    /\ s[5] = "-" /\ s[8] = "-"
    /\ \A i \in {1, 2, 3, 4, 6, 7, 9, 10} : s[i] \in Digits
    /\ LET y == NatOf(SubSeq(s, 1, 4))
           m == NatOf(SubSeq(s, 6, 7))
           d == NatOf(SubSeq(s, 9, 10))
       IN  y >= 1 /\ m \in 1..12 /\ d \in 1..DaysInMonth(y, m)

\* C15: in every data row, the cell at the date column has no date finding
\* when its text is a calendar date written YYYY-MM-DD, and otherwise
\* exactly one, of kind warning and severity warning.
C15_DateRule ==
    Validated =>
        \A r \in DOMAIN latest.data.rows :
            \A c \in DOMAIN latest.data.rows[r] :
                (c - 1) = DateColumn =>
                    LET at == FindingsAt(validation.validation, r - 1, c - 1,
                                         DateMessage)
                    IN  IF IsoCalendarDate(latest.data.rows[r][c].s)
                        THEN at = {}
                        ELSE /\ Cardinality(at) = 1
                             /\ \A i \in at :
                                   /\ validation.validation[i].type = "warning"
                                   /\ validation.validation[i].severity = "warning"

\* the findings reported for one cell
FindingsOfCell(findings, row_idx, col_idx) ==
    SelectSeq(findings, LAMBDA f : f.row = row_idx /\ f.column = col_idx)

\* C16: in every data row and every column, a cell holding "O0", "l1" or
\* "S5" has the mandatory, numeric and date findings its text earns, each
\* as an entry of its own, followed by one finding of kind warning and
\* severity info for the OCR confusion.
C16_OcrRuleIsAdditional ==
    Validated =>
        \A r \in DOMAIN latest.data.rows :
            \A c \in DOMAIN latest.data.rows[r] :
                LET cell == latest.data.rows[r][c].s IN
                (\E d \in OcrDigraphs : Contains(cell, d)) =>
                    FindingsOfCell(validation.validation, r - 1, c - 1) =
                        MandatoryCheck(r - 1, c - 1, cell)
                        \o NumericCheck(r - 1, c - 1, cell)
                        \o DateCheck(r - 1, c - 1, cell)
                        \o <<Finding(r - 1, c - 1, "warning", "info", OcrMessage)>>

\* the place of a rule in the listed order
RuleRank(message) ==
    CASE message = MandatoryMessage -> 1
      [] message = NumericMessage -> 2
      [] message = DateMessage -> 3
      [] OTHER -> 4

\* C17: the findings are one sequence in row order, and within a row in
\* the rule order mandatory, numeric, date, OCR confusion.
C17_RowMajorThenRuleOrder ==
    Validated =>
        \A i, j \in DOMAIN validation.validation :
            i < j =>
                LET f == validation.validation[i]
                    g == validation.validation[j]
                IN  \/ f.row < g.row
                    \/ f.row = g.row /\ RuleRank(f.message) <= RuleRank(g.message)

\* C18: a validation request leaves latest.json as it was and answers with
\* the table it read, every header and cell unchanged; a second request on
\* the same table gives the same answer, findings included.
C18_ValidationIsPureRead ==
    [][ValidateData =>
          /\ latest' = latest
          /\ validation'.status = 200 => validation'.data = latest.data
          /\ validation.endpoint = "/validate-data" => validation' = validation]_vars
\* a table with a padded cell in a validated row has been validated and
\* has findings
C18_Witness ==
    /\ Validated
    /\ validation.validation # <<>>
    /\ validation.data = latest.data
    /\ \E r \in DOMAIN latest.data.rows : r > 1 /\
          \E c \in DOMAIN latest.data.rows[r] :
              Strip(latest.data.rows[r][c].s) # latest.data.rows[r][c].s

\* a table in the canonical shape: every cell a string, a number or null
CanonicalRows(rows) ==
    \A r \in DOMAIN rows : \A c \in DOMAIN rows[r] :
        rows[r][c].t \in {"str", "num", "null"}

\* C19: a validation request on a table in the canonical shape, cells that
\* hold numbers or null included, is answered with status 200 and a
\* sequence of findings, never with an error.
C19_ValidatorNeverFails ==
    (/\ validation.endpoint = "/validate-data"
     /\ latest.exists
     /\ CanonicalRows(latest.data.rows))
    => validation.status = 200 /\ validation.raised = "no"

\* C20: a request for a resource that does not exist is answered with
\* status 404: POST /convert/{file_id} when no file is uploaded under the
\* id, and GET /validate-data when there is no latest.json.
C20_MissingResourceIs404 ==
    /\ (response.endpoint = "/convert/{file_id}" /\ response.upload = NoUpload)
           => response.status = 404
    /\ (validation.endpoint = "/validate-data" /\ ~latest.exists)
           => validation.status = 404

(***************************************************************************)
(* Claims about the uploads directory and POST /save-edits                 *)
(***************************************************************************)
\* C21: once POST /convert or POST /convert/{file_id} has answered, with
\* success or with any error, the source file the request read is no
\* longer in the uploads directory.
C21_UploadRemovedAfterConversion ==
    (response.endpoint \in ConvertEndpoints /\ response.upload # NoUpload)
    => ~uploads[response.file_id].exists

\* the VOUCHER records of a tree, wherever under the root they are
Vouchers(root) ==
    ChildrenTagged(root, tagVOUCHER)
    \o Concat([k \in DOMAIN root.children |->
                  ChildrenTagged(root.children[k], tagVOUCHER)])

\* C22: POST /save-edits with a well-formed body is answered with success,
\* and the XML it writes has one VOUCHER per row, each leaf named after
\* its header in upper case with "_" for every space.
C22_SaveEditsSucceeds ==
    (response.endpoint = "/save-edits" /\ ValidTable(response.data))
    => /\ response.status = 200
       /\ Len(response.xml) = 1
       /\ LET vouchers == Vouchers(response.xml[1]) IN
          /\ Len(vouchers) = Len(response.data.rows)
          /\ \A r \in DOMAIN vouchers :
                /\ Len(vouchers[r].children) = Len(response.data.headers)
                /\ \A c \in DOMAIN response.data.headers :
                      vouchers[r].children[c].tag =
                          UpperUnderscore(response.data.headers[c])

=============================================================================
